---- MODULE Spec2Model ----
(***************************************************************************)
(* A model of the CHIP-8 interpreter of this repository: the Chip8 struct  *)
(* and its methods new, load_rom and cycle (src/src/main.rs), and the      *)
(* instruction functions of src/src/ops.rs.                                *)
(*                                                                         *)
(* The struct is the record `chip8`.  A Rust panic (an out-of-range index, *)
(* or an integer overflow in a build with overflow checks) ends the        *)
(* process: it is recorded in the field `panic`, and no action is enabled  *)
(* afterwards.  Integer overflow wraps in a build without overflow checks; *)
(* the build is the variable overflow_checks, fixed by Init.               *)
(***************************************************************************)
EXTENDS Integers, Sequences, FiniteSets, TLC

\* ---------------------------------------------------------------- constants
MEMORY == 4096
WIDTH == 64
HEIGHT == 32
VF == 15
STACK == 16
ROM_BASE == 512
U8 == 256
U16 == 65536

\* ------------------------------------------------------------------- bounds
\* number of ops.rs functions applied one after another in SpecOps
MaxOps == 2
\* largest timer value drawn by the Init of SpecTimer
MaxTimer == 3

VARIABLES
    chip8,            \* the Chip8 struct, plus the field panic
    overflow_checks,  \* TRUE: integer overflow panics; FALSE: it wraps
    phase,            \* "new": constructed; "loaded": in main's loop; "unit": functions applied directly
    io,               \* what the last call did: function run, word fetched, lines printed
    nops              \* number of functions applied so far (SpecOps)

vars == <<chip8, overflow_checks, phase, io, nops>>

\* ------------------------------------------------------------------ helpers
Panic(c, why) == [c EXCEPT !.panic = why]

\* an integer operation whose mathematical result v does not fit 0..m-1
\* panics when the build checks overflow
Trap(v, m) == overflow_checks /\ (v < 0 \/ v >= m)

\* the value an overflowing operation leaves when the build does not check
Wrap(v, m) == v % m

\* the bounds check of a slice index
InBounds(idx, len) == idx >= 0 /\ idx < len

RECURSIVE Bitwise(_, _, _, _)
Bitwise(op, a, b, n) ==
    IF n = 0 THEN 0
    ELSE LET x == a % 2
             y == b % 2
             bit == CASE op = "or"  -> IF x + y >= 1 THEN 1 ELSE 0
                      [] op = "and" -> IF x + y = 2 THEN 1 ELSE 0
                      [] op = "xor" -> IF x + y = 1 THEN 1 ELSE 0
         IN  bit + 2 * Bitwise(op, a \div 2, b \div 2, n - 1)

decode_register_x(opcode) == (opcode \div 256) % 16
decode_register_y(opcode) == (opcode \div 16) % 16
decode_byte(opcode) == opcode % 256
decode_short(opcode) == opcode % 4096

\* chip8.pc += 2, as written in the skip functions and at the end of cycle
pc_add_2(c) ==
    IF Trap(c.pc + 2, U16) THEN Panic(c, "overflow")
    ELSE [c EXCEPT !.pc = Wrap(c.pc + 2, U16)]

\* ----------------------------------------------------------- src/src/ops.rs
cls_clear_display(c, opcode) ==
    [c EXCEPT !.display = [p \in 0..(WIDTH * HEIGHT - 1) |-> 0]]

ret_return_from_subroutine(c, opcode) ==
    IF ~InBounds(c.sp, STACK) THEN Panic(c, "index")
    ELSE LET c1 == [c EXCEPT !.pc = c.stack[c.sp]]
         IN  IF Trap(c.sp - 1, U16) THEN Panic(c1, "overflow")
             ELSE [c1 EXCEPT !.sp = Wrap(c.sp - 1, U16)]

jp_jump_to_address(c, opcode) ==
    [c EXCEPT !.pc = opcode % 4096]

call_subroutine(c, opcode) ==
    LET subroutine == opcode % 4096
    IN  IF Trap(c.sp + 1, U16) THEN Panic(c, "overflow")
        ELSE LET sp1 == Wrap(c.sp + 1, U16)
             IN  IF ~InBounds(sp1, STACK) THEN Panic([c EXCEPT !.sp = sp1], "index")
                 ELSE [c EXCEPT !.sp = sp1, !.stack[sp1] = c.pc, !.pc = subroutine]

se_register_byte(c, opcode) ==
    LET v_x == decode_register_x(opcode)
        kk == decode_byte(opcode)
        x == c.registers[v_x]
    IN  IF x = kk THEN pc_add_2(c) ELSE c

sne_skip_not_equal(c, opcode) ==
    LET v_x == decode_register_x(opcode)
        kk == decode_byte(opcode)
        x == c.registers[v_x]
    IN  IF x # kk THEN pc_add_2(c) ELSE c

se_registers(c, opcode) ==
    LET x == c.registers[decode_register_x(opcode)]
        y == c.registers[decode_register_y(opcode)]
    IN  IF x = y THEN pc_add_2(c) ELSE c

ld_register_byte(c, opcode) ==
    [c EXCEPT !.registers[decode_register_x(opcode)] = decode_byte(opcode)]

add_register_byte(c, opcode) ==
    LET v_x == decode_register_x(opcode)
        kk == decode_byte(opcode)
        value == c.registers[v_x]
    IN  [c EXCEPT !.registers[v_x] = (value + kk) % U8]

ld_registers(c, opcode) ==
    LET v_x == decode_register_x(opcode)
        y == c.registers[decode_register_y(opcode)]
    IN  [c EXCEPT !.registers[v_x] = y]

or_registers(c, opcode) ==
    LET v_x == decode_register_x(opcode)
        x == c.registers[v_x]
        y == c.registers[decode_register_y(opcode)]
    IN  [c EXCEPT !.registers[v_x] = Bitwise("or", x, y, 8)]

and_registers(c, opcode) ==
    LET v_x == decode_register_x(opcode)
        x == c.registers[v_x]
        y == c.registers[decode_register_y(opcode)]
    IN  [c EXCEPT !.registers[v_x] = Bitwise("and", x, y, 8)]

xor_registers(c, opcode) ==
    LET v_x == decode_register_x(opcode)
        x == c.registers[v_x]
        y == c.registers[decode_register_y(opcode)]
    IN  [c EXCEPT !.registers[v_x] = Bitwise("xor", x, y, 8)]

\* add_registers with the carry taken as x + y > 256
add_registers_carry_off_by_one(c, opcode) ==
    LET v_x == decode_register_x(opcode)
        x == c.registers[v_x]
        y == c.registers[decode_register_y(opcode)]
        sum == (x + y) % U8
        overflow == IF x + y > U8 THEN 1 ELSE 0
        c1 == [c EXCEPT !.registers[v_x] = sum]
    IN  [c1 EXCEPT !.registers[VF] = overflow]

add_registers(c, opcode) ==
    LET v_x == decode_register_x(opcode)
        x == c.registers[v_x]
        y == c.registers[decode_register_y(opcode)]
        sum == (x + y) % U8
        overflow == IF x + y >= U8 THEN 1 ELSE 0
        c1 == [c EXCEPT !.registers[v_x] = sum]
    IN  [c1 EXCEPT !.registers[VF] = overflow]

sub_registers(c, opcode) ==
    LET v_x == decode_register_x(opcode)
        x == c.registers[v_x]
        y == c.registers[decode_register_y(opcode)]
    IN  IF Trap(x - y, U8) THEN Panic(c, "overflow")
        ELSE LET c1 == [c EXCEPT !.registers[v_x] = Wrap(x - y, U8)]
             IN  [c1 EXCEPT !.registers[VF] = IF x > y THEN 1 ELSE 0]

shr_registers(c, opcode) ==
    LET v_x == decode_register_x(opcode)
        lsb == c.registers[v_x] % 2
        c1 == [c EXCEPT !.registers[VF] = lsb]
    IN  IF Trap(c1.registers[v_x] - lsb, U8) THEN Panic(c1, "overflow")
        ELSE [c1 EXCEPT !.registers[v_x] = Wrap(c1.registers[v_x] - lsb, U8) \div 2]

subn_registers(c, opcode) ==
    LET v_x == decode_register_x(opcode)
        x == c.registers[v_x]
        y == c.registers[decode_register_y(opcode)]
    IN  IF Trap(y - x, U8) THEN Panic(c, "overflow")
        ELSE LET c1 == [c EXCEPT !.registers[v_x] = Wrap(y - x, U8)]
             IN  [c1 EXCEPT !.registers[VF] = IF y > x THEN 1 ELSE 0]

shl_registers(c, opcode) ==
    LET v_x == decode_register_x(opcode)
        msb == c.registers[v_x] % 2
        c1 == [c EXCEPT !.registers[VF] = msb]
    IN  IF Trap(c1.registers[v_x] * 2, U8) THEN Panic(c1, "overflow")
        ELSE [c1 EXCEPT !.registers[v_x] = Wrap(c1.registers[v_x] * 2, U8)]

ld_i_byte(c, opcode) ==
    [c EXCEPT !.i = opcode % 4096]

jp_bnnn(c, opcode) ==
    LET nnn == decode_short(opcode)
        v0 == c.registers[0]
    IN  IF Trap(nnn + v0, U16) THEN Panic(c, "overflow")
        ELSE [c EXCEPT !.pc = Wrap(nnn + v0, U16)]

\* random is the byte chip8.rng.gen() returns
rnd(c, opcode, random) ==
    LET x == decode_register_x(opcode)
        kk == decode_byte(opcode)
    IN  [c EXCEPT !.registers[x] = Bitwise("and", random, kk, 8)]

\* ---------------------------------------------------------- src/src/main.rs
new ==
    [pc |-> ROM_BASE, opcode |-> 0, i |-> 0,
     registers |-> [r \in 0..15 |-> 0],
     memory |-> [a \in 0..(MEMORY - 1) |-> 0],
     display |-> [p \in 0..(WIDTH * HEIGHT - 1) |-> 0],
     delay_timer |-> 0, sound_timer |-> 0,
     sp |-> 0, stack |-> [s \in 0..(STACK - 1) |-> 0],
     panic |-> "none"]

\* load_rom without the bounds check of the index: a byte past the end of
\* the array lands at the start of it and the call returns Ok
load_rom_wrapping(c, image) ==
    LET k(a) == ((a + MEMORY - ROM_BASE) % MEMORY) + 1
    IN  [c EXCEPT !.memory = [a \in 0..(MEMORY - 1) |->
                                 IF k(a) <= Len(image) THEN image[k(a)]
                                 ELSE c.memory[a]]]

\* the loop of load_rom: byte idx of the file goes to memory[idx + 512];
\* the first index past the array panics, after the bytes before it are written
load_rom(c, image) ==
    LET fits == {k \in 1..Len(image) : InBounds(k - 1 + ROM_BASE, MEMORY)}
        mem == [a \in 0..(MEMORY - 1) |->
                   IF a - ROM_BASE + 1 \in fits THEN image[a - ROM_BASE + 1]
                   ELSE c.memory[a]]
        c1 == [c EXCEPT !.memory = mem]
    IN  IF fits # 1..Len(image) THEN Panic(c1, "index") ELSE c1

\* fetch without the bounds check of the index: a read past the array
\* returns whatever lies there (0 here) and the call goes on
fetch_unchecked(c) ==
    LET read(a) == IF a \in DOMAIN c.memory THEN c.memory[a] ELSE 0
    IN  [ok |-> TRUE, opcode |-> read(c.pc) * 256 + read(c.pc + 1)]

\* the two reads of memory at pc and pc + 1, and the word they form
fetch(c) ==
    IF ~InBounds(c.pc, MEMORY) \/ ~InBounds(c.pc + 1, MEMORY)
    THEN [ok |-> FALSE, opcode |-> 0]
    ELSE [ok |-> TRUE, opcode |-> c.memory[c.pc] * 256 + c.memory[c.pc + 1]]

\* the arm 0xD000 of cycle, which draws in place
draw_arm(c) ==
    LET n_bytes == c.opcode % 16
        x == c.registers[(c.opcode \div 256) % 16]
        y == c.registers[(c.opcode \div 16) % 16]
        start == c.i
        end == start + n_bytes
    IN  IF end > MEMORY THEN Panic(c, "index")
        ELSE IF Trap(x - 1, U8) THEN Panic(c, "overflow")
        ELSE LET draw_start == y + Wrap(x - 1, U8) * HEIGHT
                 written == {idx \in 0..(n_bytes - 1) :
                                InBounds(draw_start + idx, WIDTH * HEIGHT)}
                 disp == [p \in 0..(WIDTH * HEIGHT - 1) |->
                            IF p - draw_start \in written
                            THEN c.memory[start + (p - draw_start)]
                            ELSE c.display[p]]
                 c1 == [c EXCEPT !.display = disp]
             IN  IF written # 0..(n_bytes - 1) THEN Panic(c1, "index") ELSE c1

\* the arm 0xF007 of cycle
get_delay_arm(c) ==
    [c EXCEPT !.registers[(c.opcode \div 256) % 16] = c.delay_timer]

\* the arm 0xF033 of cycle: the three values are printed, nothing is stored
bcd_arm(c) ==
    LET x0 == c.registers[(c.opcode \div 256) % 16]
        hundreds == x0 - (x0 % 100)
        x == x0 - hundreds
        tens == x - (x % 10)
        ones == x - tens
    IN  c

Ran(name, c) == [c |-> c, op |-> name, not_implemented |-> FALSE]

\* the match of cycle: the arm is chosen by the field chip8.opcode, the
\* function of the arm is given the word fetched in this call
execute(c, opcode, random) ==
    LET instruction == (c.opcode \div 4096) * 4096
        low_byte == c.opcode % 256
        low_nibble == c.opcode % 16
    IN  CASE instruction = \h0000 ->
                (CASE low_byte = \hE0 -> Ran("cls_clear_display", cls_clear_display(c, opcode))
                   [] low_byte = \hEE -> Ran("ret_return_from_subroutine", ret_return_from_subroutine(c, opcode))
                   [] OTHER -> Ran("none", c))
          [] instruction = \h1000 -> Ran("jp_jump_to_address", jp_jump_to_address(c, opcode))
          [] instruction = \h2000 -> Ran("call_subroutine", call_subroutine(c, opcode))
          [] instruction = \h3000 -> Ran("se_register_byte", se_register_byte(c, opcode))
          [] instruction = \h4000 -> Ran("sne_skip_not_equal", sne_skip_not_equal(c, opcode))
          [] instruction = \h5000 -> Ran("se_registers", se_registers(c, opcode))
          [] instruction = \h6000 -> Ran("ld_register_byte", ld_register_byte(c, opcode))
          [] instruction = \h7000 -> Ran("add_register_byte", add_register_byte(c, opcode))
          [] instruction = \h8000 ->
                (CASE low_nibble = 0 -> Ran("ld_registers", ld_registers(c, opcode))
                   [] low_nibble = 1 -> Ran("or_registers", or_registers(c, opcode))
                   [] low_nibble = 2 -> Ran("and_registers", and_registers(c, opcode))
                   [] low_nibble = 3 -> Ran("xor_registers", xor_registers(c, opcode))
                   [] low_nibble = 4 -> Ran("add_registers", add_registers(c, opcode))
                   [] low_nibble = 5 -> Ran("sub_registers", sub_registers(c, opcode))
                   [] low_nibble = 6 -> Ran("shr_registers", shr_registers(c, opcode))
                   [] low_nibble = 7 -> Ran("subn_registers", subn_registers(c, opcode))
                   [] low_nibble = 14 -> Ran("shl_registers", shl_registers(c, opcode))
                   [] OTHER -> Ran("none", c))
          [] instruction = \h9000 -> Ran("none", c)
          [] instruction = \hA000 -> Ran("ld_i_byte", ld_i_byte(c, opcode))
          [] instruction = \hB000 -> Ran("jp_bnnn", jp_bnnn(c, opcode))
          [] instruction = \hC000 -> Ran("rnd", rnd(c, opcode, random))
          [] instruction = \hD000 -> Ran("draw", draw_arm(c))
          [] instruction = \hE000 -> Ran("none", c)
          [] instruction = \hF000 ->
                (CASE low_byte = \h07 -> Ran("get_delay", get_delay_arm(c))
                   [] low_byte = \h33 -> Ran("bcd", bcd_arm(c))
                   [] OTHER -> Ran("none", c))
          [] OTHER -> [c |-> c, op |-> "none", not_implemented |-> TRUE]

\* the end of cycle: both timers count down, BEEP is printed when the
\* sound timer has just become 1
update_timers(c) ==
    LET c1 == IF c.delay_timer > 0
              THEN [c EXCEPT !.delay_timer = c.delay_timer - 1] ELSE c
        c2 == IF c1.sound_timer > 0
              THEN [c1 EXCEPT !.sound_timer = c1.sound_timer - 1] ELSE c1
    IN  [c |-> c2, beep |-> c1.sound_timer > 0 /\ c2.sound_timer = 1]

\* io before any call; fetched = -1: no word was fetched
NoIo == [op |-> "none", addr |-> -1, fetched |-> -1, beep |-> FALSE, not_implemented |-> FALSE]

\* one call of cycle: the struct it leaves and what it did
cycle(c, random) ==
    LET f == fetch(c)
    IN  IF ~f.ok THEN [c |-> Panic(c, "index"), io |-> [NoIo EXCEPT !.addr = c.pc]]
        ELSE LET e == execute(c, f.opcode, random)
                 done == [op |-> e.op, addr |-> c.pc, fetched |-> f.opcode, beep |-> FALSE,
                          not_implemented |-> e.not_implemented]
             IN  IF e.c.panic # "none" THEN [c |-> e.c, io |-> done]
                 ELSE LET c1 == pc_add_2(e.c)
                          t == update_timers(c1)
                      IN  IF c1.panic # "none" THEN [c |-> c1, io |-> done]
                          ELSE [c |-> t.c, io |-> [done EXCEPT !.beep = t.beep]]

\* ------------------------------------------------------------------ inputs
\* program images given to load_rom
\*   0x200 JP 0x2E4      0x202 JP V0,0x300   0x204 CALL 0x20A   0x206 RET
\*   0x208 LD V0,K       0x20A 8xy8 (no such instruction)       0x20C ADD V0,V1
\*   0x20E 0xFFFF (no such instruction)
Image1 ==
    << \h12, \hE4, \hB3, \h00, \h22, \h0A, \h00, \hEE,
       \hF0, \h0A, \h80, \h08, \h80, \h14, \hFF, \hFF >>

\*   0x200 RET   0x202 LD V0,5   0x204 LD ST,V0   0x206 LD DT,V0   0x208 CLS
Image2 ==
    << \h00, \hEE, \h60, \h05, \hF0, \h18, \hF0, \h15, \h00, \hE0 >>

\*   0x200 SE V0,0x00   0x202 SNE V0,0x01   0x204 SE V0,V1   0x206 SNE V0,V1
\*   0x208 LD VA,0x3C   0x20A LD B,V0   0x20C LD [I],V1   0x20E LD V1,[I]
\*   0x210 DRW V0,V1,5
Image3 ==
    << \h30, \h00, \h40, \h01, \h50, \h10, \h90, \h10, \h6A, \h3C,
       \hF0, \h33, \hF1, \h55, \hF1, \h65, \hD0, \h15 >>

\* an image that fills memory from 0x200 to the last byte, and one a byte longer
ImageFull == [k \in 1..(MEMORY - ROM_BASE) |-> (k % 255) + 1]

ImageOver == [k \in 1..(MEMORY - ROM_BASE + 1) |-> (k % 255) + 1]

RomImages == {Image1, Image2, Image3, ImageFull, ImageOver}

\* bytes the random generator may return
RandomBytes == {0, 255}

\* register values drawn by the Init of SpecOps
ByteSamples == {0, 1, 127, 128, 255}

\* ----------------------------------------------------------------- actions
\* main: chip8.load_rom(path) succeeds in opening the file
LoadRom ==
    /\ phase = "new"
    /\ chip8.panic = "none"
    /\ \E image \in RomImages : chip8' = load_rom(chip8, image)
    /\ phase' = "loaded"
    /\ UNCHANGED <<overflow_checks, io, nops>>

\* main: File::open fails, load_rom returns Err and expect panics
OpenFails ==
    /\ phase = "new"
    /\ chip8.panic = "none"
    /\ chip8' = Panic(chip8, "Could not open file")
    /\ UNCHANGED <<overflow_checks, phase, io, nops>>

\* main: one pass of the loop, chip8.cycle()
Cycle ==
    /\ phase = "loaded"
    /\ chip8.panic = "none"
    /\ \E random \in RandomBytes :
          LET r == cycle(chip8, random)
          IN  chip8' = r.c /\ io' = r.io
    /\ UNCHANGED <<overflow_checks, phase, nops>>

Init ==
    /\ chip8 = new
    /\ overflow_checks \in BOOLEAN
    /\ phase = "new"
    /\ io = NoIo
    /\ nops = 0

Next == LoadRom \/ OpenFails \/ Cycle

Spec == Init /\ [][Next]_vars

\* The program as above, run on a struct whose two timers hold any value up
\* to MaxTimer: no statement of the source assigns a timer, so the values
\* cycle counts down are inputs of the run.
InitTimer ==
    /\ \E d \in 0..MaxTimer, s \in 0..MaxTimer :
          chip8 = [new EXCEPT !.delay_timer = d, !.sound_timer = s]
    /\ overflow_checks \in BOOLEAN
    /\ phase = "new"
    /\ io = NoIo
    /\ nops = 0

SpecTimer == InitTimer /\ [][Next]_vars

\* The functions of ops.rs applied directly, each to the struct the last
\* one left, starting from a struct with V0, V1 and VF drawn from samples.
Applied(name, opcode, c) ==
    /\ chip8' = c
    /\ io' = [NoIo EXCEPT !.op = name, !.fetched = opcode]
    /\ nops' = nops + 1
    /\ UNCHANGED <<overflow_checks, phase>>

UnitGuard == phase = "unit" /\ chip8.panic = "none" /\ nops < MaxOps

OpRet ==
    /\ UnitGuard
    /\ Applied("ret_return_from_subroutine", \h00EE,
               ret_return_from_subroutine(chip8, \h00EE))

OpJp ==
    /\ UnitGuard
    /\ \E opcode \in {\h12E4, \h1FFF} :
          Applied("jp_jump_to_address", opcode, jp_jump_to_address(chip8, opcode))

OpCall ==
    /\ UnitGuard
    /\ \E opcode \in {\h220A, \h2FFE} :
          Applied("call_subroutine", opcode, call_subroutine(chip8, opcode))

OpJpBnnn ==
    /\ UnitGuard
    /\ \E opcode \in {\hB300, \hBFFF} :
          Applied("jp_bnnn", opcode, jp_bnnn(chip8, opcode))

OpAddRegisters ==
    /\ UnitGuard
    /\ \E opcode \in {\h8014, \h8104, \h8004, \h8F14, \h80F4, \h8FF4} :
          Applied("add_registers", opcode, add_registers(chip8, opcode))

InitOps ==
    /\ \E a \in ByteSamples, b \in ByteSamples, f \in {0, 1} :
          chip8 = [new EXCEPT !.registers[0] = a, !.registers[1] = b,
                              !.registers[VF] = f]
    /\ overflow_checks \in BOOLEAN
    /\ phase = "unit"
    /\ io = NoIo
    /\ nops = 0

NextOps == OpRet \/ OpJp \/ OpCall \/ OpJpBnnn \/ OpAddRegisters

SpecOps == InitOps /\ [][NextOps]_vars

\* ================================================================== claims
\* a call of cycle has completed its fetch, and io describes that call
Stepped == phase = "loaded" /\ io.fetched # -1

TopNibble(w) == w \div 4096

\* the function the match of cycle selects when it is given the word w
Selected(w) == execute([chip8 EXCEPT !.opcode = w], w, 0).op

\* C1: the operation a step executes is the one selected by the word the
\* step fetched from memory[PC], memory[PC+1].  Stated as written; the code
\* selects by the field chip8.opcode, which no statement assigns.
C1_ExecutesFetchedWord == Stepped => io.op = Selected(io.fetched)

\* C2: after a step that fetched JP addr, PC = addr; after a step that
\* fetched JP V0,addr, PC = addr + V0: no PC += 2 on top of the target.
C2_JumpSetsPc ==
    (Stepped /\ chip8.panic = "none") =>
        /\ TopNibble(io.fetched) = 1 => chip8.pc = io.fetched % 4096
        /\ TopNibble(io.fetched) = 11 =>
              chip8.pc = (io.fetched % 4096) + chip8.registers[0]

\* C3: a step that fetches CALL addr with the stack not full leaves
\* PC = addr and the stack pointer one higher (the matching RET then
\* brings it back).
C3_CallSetsPc ==
    [][(phase = "loaded" /\ TopNibble(io'.fetched) = 2 /\ chip8.sp < STACK - 1)
          => (chip8'.pc = io'.fetched % 4096 /\ chip8'.sp = chip8.sp + 1)]_vars

\* C4: the stack pointer of a running machine is within 0..15: RET on an
\* empty stack and CALL on a full one halt the machine, they never wrap or
\* overrun the stack pointer.
C4_StackPointerBounded == chip8.panic = "none" => chip8.sp \in 0..(STACK - 1)

\* C5: every fetch cycle completes read memory[PC] and memory[PC+1] with
\* PC + 1 < 4096; a step whose fetch would read outside memory panics
\* (index out of bounds) and the machine takes no further step.
C5_FetchInBounds ==
    /\ [](io.fetched # -1 => (io.addr >= 0 /\ io.addr + 1 < MEMORY))
    /\ [][(phase = "loaded" /\ chip8.pc + 1 >= MEMORY) => chip8'.panic = "index"]_vars
    /\ [][chip8.panic # "none" => chip8' = chip8]_vars

\* C5 witness: the program counter has run off the end of memory and the
\* step that would have fetched at 4096 panicked instead
C5_Witness == phase = "loaded" /\ chip8.panic = "index" /\ io.addr = MEMORY

\* the words of the instruction table (spec section 4.1)
KnownWord(w) ==
    LET top == TopNibble(w)
        low == w % 256
        nib == w % 16
    IN  \/ w = \h00E0 \/ w = \h00EE
        \/ top \in {1, 2, 3, 4, 6, 7, 10, 11, 12, 13}
        \/ top \in {5, 9} /\ nib = 0
        \/ top = 8 /\ nib \in {0, 1, 2, 3, 4, 5, 6, 7, 14}
        \/ top = 14 /\ low \in {\h9E, \hA1}
        \/ top = 15 /\ low \in {\h07, \h0A, \h15, \h18, \h1E, \h29, \h33, \h55, \h65}

\* C6: a step that fetched a word outside the instruction table reports it
\* as unknown (and a word of the table is never reported).
C6_UnknownReported == Stepped => (io.not_implemented <=> ~KnownWord(io.fetched))

\* C7: a step that fetches LD Vx,K while the host reports no key (the
\* program has no key input, so no key is ever reported) leaves PC where
\* it is: PC never moves past Fx0A before a key.
C7_WaitsForKey ==
    [][(phase = "loaded" /\ TopNibble(io'.fetched) = 15 /\ io'.fetched % 256 = \h0A)
          => chip8'.pc = chip8.pc]_vars

\* C8: a step never decrements delay_timer or sound_timer.
C8_StepKeepsTimers ==
    [][(phase = "loaded" /\ phase' = "loaded")
          => (/\ chip8'.delay_timer = chip8.delay_timer
              /\ chip8'.sound_timer = chip8.sound_timer)]_vars

\* C9: a beep is emitted on exactly the decrement that takes sound_timer
\* from 1 to 0.
C9_BeepOnOneToZero ==
    [][(phase = "loaded" /\ phase' = "loaded" /\ chip8'.panic = "none")
          => (io'.beep <=> (chip8.sound_timer = 1 /\ chip8'.sound_timer = 0))]_vars

\* a step of SpecOps that applied add_registers
AddStep == phase = "unit" /\ io'.op = "add_registers" /\ nops' = nops + 1

Carry(a, b) == IF a + b >= 256 THEN 1 ELSE 0

\* C10 as written: ADD Vx,Vy leaves Vx = (a + b) mod 256 and VF = carry,
\* for every register x.
C10_AddAsWritten ==
    [][AddStep =>
          LET x == decode_register_x(io'.fetched)
              a == chip8.registers[x]
              b == chip8.registers[decode_register_y(io'.fetched)]
          IN  /\ chip8'.registers[x] = (a + b) % 256
              /\ chip8'.registers[VF] = Carry(a, b)]_vars

\* C10 amended: add_registers leaves VF = carry of a + b, and
\* Vx = (a + b) mod 256 when x is not the flag register; with x = 15 the
\* carry overwrites the sum.
C10_Add ==
    [][AddStep =>
          LET x == decode_register_x(io'.fetched)
              a == chip8.registers[x]
              b == chip8.registers[decode_register_y(io'.fetched)]
          IN  /\ chip8'.registers[VF] = Carry(a, b)
              /\ x # VF => chip8'.registers[x] = (a + b) % 256
              /\ \A r \in 0..15 : r \notin {x, VF} => chip8'.registers[r] = chip8.registers[r]]_vars

\* C10 witness: ADD V0,V1 has just run on 255 + 1 (or 128 + 128): V0 wrapped
\* to 0 and VF is the carry
C10_Witness ==
    /\ phase = "unit" /\ io.op = "add_registers" /\ io.fetched = \h8014
    /\ chip8.registers[0] = 0 /\ chip8.registers[1] > 0 /\ chip8.registers[VF] = 1

\* ------------------------------------------------- arithmetic functions
\* The arithmetic functions of ops.rs applied directly, from the structs of
\* InitOps.
OpAddByte ==
    /\ UnitGuard
    /\ \E opcode \in {\h7001, \h70FF, \h7F80} :
          Applied("add_register_byte", opcode, add_register_byte(chip8, opcode))

OpSub ==
    /\ UnitGuard
    /\ \E opcode \in {\h8015, \h8105, \h8005, \h8F15} :
          Applied("sub_registers", opcode, sub_registers(chip8, opcode))

OpSubn ==
    /\ UnitGuard
    /\ \E opcode \in {\h8017, \h8107, \h8007, \h8F17} :
          Applied("subn_registers", opcode, subn_registers(chip8, opcode))

OpShr ==
    /\ UnitGuard
    /\ \E opcode \in {\h8006, \h8106, \h8F06} :
          Applied("shr_registers", opcode, shr_registers(chip8, opcode))

OpShl ==
    /\ UnitGuard
    /\ \E opcode \in {\h800E, \h810E, \h8F0E} :
          Applied("shl_registers", opcode, shl_registers(chip8, opcode))

NextAlu == OpAddByte \/ OpAddRegisters \/ OpSub \/ OpSubn \/ OpShr \/ OpShl

SpecAlu == InitOps /\ [][NextAlu]_vars

\* a step that applied the function named op directly
UnitStep(op) == phase = "unit" /\ io'.op = op /\ nops' = nops + 1

\* C11: SUB Vx,Vy leaves Vx = (a - b) mod 256 and VF = 1 iff a >= b, SUBN
\* leaves Vx = (b - a) mod 256 and VF = 1 iff b >= a (x other than the flag
\* register, whose value is the flag).
C11_SubNotBorrow ==
    [][LET x == decode_register_x(io'.fetched)
           a == chip8.registers[x]
           b == chip8.registers[decode_register_y(io'.fetched)]
       IN  /\ (UnitStep("sub_registers") /\ x # VF) =>
                 /\ chip8'.panic = "none"
                 /\ chip8'.registers[x] = (a - b) % 256
                 /\ chip8'.registers[VF] = (IF a >= b THEN 1 ELSE 0)
           /\ (UnitStep("subn_registers") /\ x # VF) =>
                 /\ chip8'.panic = "none"
                 /\ chip8'.registers[x] = (b - a) % 256
                 /\ chip8'.registers[VF] = (IF b >= a THEN 1 ELSE 0)]_vars

\* C12: no arithmetic function ends in an overflow or underflow error.
C12_ArithmeticNeverFaults == phase = "unit" => chip8.panic # "overflow"

\* C13: SHR Vx leaves VF = bit 0 of v and Vx = v div 2; SHL Vx leaves
\* VF = bit 7 of v and Vx = (2 * v) mod 256 (x other than the flag register).
C13_ShiftBits ==
    [][LET x == decode_register_x(io'.fetched)
           v == chip8.registers[x]
       IN  /\ (UnitStep("shr_registers") /\ x # VF) =>
                 /\ chip8'.panic = "none"
                 /\ chip8'.registers[VF] = v % 2
                 /\ chip8'.registers[x] = v \div 2
           /\ (UnitStep("shl_registers") /\ x # VF) =>
                 /\ chip8'.panic = "none"
                 /\ chip8'.registers[VF] = v \div 128
                 /\ chip8'.registers[x] = (2 * v) % 256]_vars

\* ------------------------------------------- drawing: ops.rs and screen.rs
\* binary_to_vec: eight times, push the top bit and shift the byte left
RECURSIVE binary_to_vec_loop(_, _)
binary_to_vec_loop(binary, n) ==
    IF n = 0 THEN << >>
    ELSE << (binary \div 128) % 2 >> \o binary_to_vec_loop((binary * 2) % U8, n - 1)

\* binary_to_vec taking the bottom bit and shifting right: least-significant
\* bit first
binary_to_vec_lsb_first(binary) ==
    [k \in 1..8 |-> (binary \div (2 ^ (k - 1))) % 2]

binary_to_vec(binary) == binary_to_vec_loop(binary, 8)

\* the pixels binary_to_buffer collects: each bit times 255, row after row
RECURSIVE buffer_pixels(_)
buffer_pixels(binary) ==
    IF binary = << >> THEN << >>
    ELSE [k \in 1..8 |-> binary_to_vec(Head(binary))[k] * 255]
            \o buffer_pixels(Tail(binary))

\* Buffer::new(8, height, Some(pixels))
binary_to_buffer(binary) ==
    [width |-> 8, height |-> Len(binary), pixels |-> buffer_pixels(binary)]

\* the loop of Buffer::blit from index idx on: a pixel of buffer is skipped
\* when its column or row, offset added, exceeds the width or height OF
\* buffer, otherwise it is stored (not combined) at its place in pixels
RECURSIVE blit_loop(_, _, _, _, _)
blit_loop(pixels, width, buffer, offset, idx) ==
    IF idx >= Len(buffer.pixels) THEN [pixels |-> pixels, ok |-> TRUE]
    ELSE LET target_x == idx % buffer.width
             target_y == (idx - target_x) \div buffer.width
             draw_idx == offset.x + target_x + (offset.y + target_y) * width
         IN  IF offset.x + target_x > buffer.width \/ offset.y + target_y > buffer.height
             THEN blit_loop(pixels, width, buffer, offset, idx + 1)
             ELSE IF draw_idx \notin DOMAIN pixels
             THEN [pixels |-> pixels, ok |-> FALSE]
             ELSE blit_loop([pixels EXCEPT ![draw_idx] = buffer.pixels[idx + 1]],
                            width, buffer, offset, idx + 1)

\* Buffer::blit on the pixels of a buffer of the given width
blit(pixels, width, buffer, offset) == blit_loop(pixels, width, buffer, offset, 0)

\* the display is taken as a Buffer of WIDTH x HEIGHT pixels
drw_draw_sprite(c, opcode) ==
    LET v_x == decode_register_x(opcode)
        v_y == decode_register_y(opcode)
        n == opcode % 16
        x == c.registers[v_x]
        y == c.registers[v_y]
        start == c.i
        end == start + n
    IN  IF end > MEMORY THEN Panic(c, "index")
        ELSE LET read == [k \in 1..n |-> c.memory[start + k - 1]]
                 b == blit(c.display, WIDTH, binary_to_buffer(read), [x |-> x, y |-> y])
             IN  IF b.ok THEN [c EXCEPT !.display = b.pixels]
                 ELSE Panic([c EXCEPT !.display = b.pixels], "index")

\* the bytes of SPRITE (screen.rs), placed in memory for the draw functions
SPRITE == << \h24, \h24, \h00, \h81, \h7E >>

SpriteAddr == ROM_BASE + 256

\* values of V0 and V1 used as draw coordinates
XSamples == {0, 1, 3, 62, 70}
YSamples == {0, 1, 30, 40}

OpDraw ==
    /\ UnitGuard
    /\ \E opcode \in {\hD015, \hD105, \hD005, \hD012, \hD010} :
          Applied("drw_draw_sprite", opcode, drw_draw_sprite(chip8, opcode))

OpCls ==
    /\ UnitGuard
    /\ Applied("cls_clear_display", \h00E0, cls_clear_display(chip8, \h00E0))

\* a struct with the display cleared, SPRITE in memory and I pointing into it
InitDraw ==
    /\ \E a \in XSamples, b \in YSamples, f \in {0, 1}, i \in {SpriteAddr, SpriteAddr + 2} :
          chip8 = [new EXCEPT !.registers[0] = a, !.registers[1] = b,
                              !.registers[VF] = f, !.i = i,
                              !.memory = [m \in 0..(MEMORY - 1) |->
                                  IF m - SpriteAddr + 1 \in 1..Len(SPRITE)
                                  THEN SPRITE[m - SpriteAddr + 1] ELSE 0]]
    /\ overflow_checks \in BOOLEAN
    /\ phase = "unit"
    /\ io = NoIo
    /\ nops = 0

NextDraw == OpDraw \/ OpCls

SpecDraw == InitDraw /\ [][NextDraw]_vars

\* bit col (0 = most significant) of row r of the sprite at I
SpriteBit(c, r, col) ==
    LET byte == c.memory[c.i + r]
    IN  CASE col = 0 -> byte \div 128
          [] col = 1 -> (byte \div 64) % 2
          [] col = 2 -> (byte \div 32) % 2
          [] col = 3 -> (byte \div 16) % 2
          [] col = 4 -> (byte \div 8) % 2
          [] col = 5 -> (byte \div 4) % 2
          [] col = 6 -> (byte \div 2) % 2
          [] col = 7 -> byte % 2

\* the display index of sprite pixel (r, col) drawn at (vx, vy) with wraparound
Target(vx, vy, r, col) ==
    (((vx % WIDTH) + col) % WIDTH) + ((((vy % HEIGHT) + r) % HEIGHT) * WIDTH)

Cleared == [p \in 0..(WIDTH * HEIGHT - 1) |-> 0]

\* C14: DRW composites by XOR: each target pixel is afterwards on iff it was
\* on before differently from the sprite bit, and VF = 1 iff some pixel that
\* was on is off after the draw, else 0.
C14_DrawXor ==
    [][UnitStep("drw_draw_sprite") =>
          LET vx == chip8.registers[decode_register_x(io'.fetched)]
              vy == chip8.registers[decode_register_y(io'.fetched)]
              n == io'.fetched % 16
          IN  /\ \A r \in 0..(n - 1), col \in 0..7 :
                    LET t == Target(vx, vy, r, col)
                    IN  (chip8'.display[t] # 0) <=>
                            ((chip8.display[t] # 0) # (SpriteBit(chip8, r, col) = 1))
              /\ chip8'.registers[VF] =
                    (IF \E q \in DOMAIN chip8.display :
                           chip8.display[q] # 0 /\ chip8'.display[q] = 0
                     THEN 1 ELSE 0)]_vars

\* C15: the same sprite drawn twice in a row at the same coordinates, the
\* first time on the cleared display, leaves the display cleared again and
\* VF = 1 when the sprite has a set bit.
C15_DrawTwiceRestores ==
    [][(/\ UnitStep("drw_draw_sprite")
        /\ nops = 1 /\ io.op = "drw_draw_sprite" /\ io'.fetched = io.fetched)
          => LET n == io'.fetched % 16
             IN  /\ chip8'.display = Cleared
                 /\ (\E r \in 0..(n - 1), col \in 0..7 : SpriteBit(chip8, r, col) = 1)
                       => chip8'.registers[VF] = 1]_vars

\* C16: DRW on the cleared display puts sprite bit (r, col) at column
\* ((Vx mod 64) + col) mod 64, row ((Vy mod 32) + r) mod 32: no pixel is
\* skipped or clipped and no access leaves the grid.
C16_DrawWraps ==
    [][(UnitStep("drw_draw_sprite") /\ nops = 0) =>
          LET vx == chip8.registers[decode_register_x(io'.fetched)]
              vy == chip8.registers[decode_register_y(io'.fetched)]
              n == io'.fetched % 16
          IN  /\ chip8'.panic = "none"
              /\ \A r \in 0..(n - 1), col \in 0..7 :
                    (chip8'.display[Target(vx, vy, r, col)] # 0)
                        <=> (SpriteBit(chip8, r, col) = 1)]_vars

\* ------------------------------------------------ memory functions, ops.rs
\* ld_bcd: hundreds, tens and ones are computed and printed, nothing is stored
ld_bcd(c, opcode) ==
    LET v_x == decode_register_x(opcode)
        x0 == c.registers[v_x]
        hundreds == x0 - (x0 % 100)
        x == x0 - hundreds
        tens == x - (x % 10)
        ones == x - tens
    IN  c

\* ld_store_registers: registers v_x..15 go to memory[i], memory[i + 1], ...
\* the first index past the array panics, after the bytes before it are written
ld_store_registers(c, opcode) ==
    LET v_x == decode_register_x(opcode)
        i == c.i
        mem == [a \in 0..(MEMORY - 1) |->
                   IF a >= i /\ a - i <= 15 - v_x THEN c.registers[v_x + (a - i)]
                   ELSE c.memory[a]]
        c1 == [c EXCEPT !.memory = mem]
    IN  IF ~InBounds(i + (15 - v_x), MEMORY) THEN Panic(c1, "index") ELSE c1

\* ld_read_registers has an empty body
ld_read_registers(c, opcode) == c

OpLdI ==
    /\ UnitGuard
    /\ \E opcode \in {\hA300, \hAFFE} :
          Applied("ld_i_byte", opcode, ld_i_byte(chip8, opcode))

OpBcd ==
    /\ UnitGuard
    /\ \E opcode \in {\hF033, \hF133} :
          Applied("ld_bcd", opcode, ld_bcd(chip8, opcode))

OpStore ==
    /\ UnitGuard
    /\ \E opcode \in {\hF055, \hF155, \hFF55} :
          Applied("ld_store_registers", opcode, ld_store_registers(chip8, opcode))

OpRead ==
    /\ UnitGuard
    /\ \E opcode \in {\hF065, \hF165} :
          Applied("ld_read_registers", opcode, ld_read_registers(chip8, opcode))

\* a struct with V0 and V1 drawn from samples, SPRITE in memory and I
\* pointing at it
InitMem ==
    /\ \E a \in ByteSamples, b \in ByteSamples :
          chip8 = [new EXCEPT !.registers[0] = a, !.registers[1] = b,
                              !.i = SpriteAddr,
                              !.memory = [m \in 0..(MEMORY - 1) |->
                                  IF m - SpriteAddr + 1 \in 1..Len(SPRITE)
                                  THEN SPRITE[m - SpriteAddr + 1] ELSE 0]]
    /\ overflow_checks \in BOOLEAN
    /\ phase = "unit"
    /\ io = NoIo
    /\ nops = 0

NextMem == OpLdI \/ OpBcd \/ OpStore \/ OpRead

SpecMem == InitMem /\ [][NextMem]_vars

\* C17: LD B,Vx writes the decimal digits of v = Vx to memory[I..I+2] and
\* leaves every other memory byte and every register unchanged.
C17_BcdDigits ==
    [][(UnitStep("ld_bcd") /\ chip8.i + 2 < MEMORY) =>
          LET v == chip8.registers[decode_register_x(io'.fetched)]
              i == chip8.i
          IN  /\ chip8'.memory[i] = v \div 100
              /\ chip8'.memory[i + 1] = (v \div 10) % 10
              /\ chip8'.memory[i + 2] = v % 10
              /\ \A a \in 0..(MEMORY - 1) :
                    a \notin i..(i + 2) => chip8'.memory[a] = chip8.memory[a]
              /\ chip8'.registers = chip8.registers]_vars

\* C18: LD [I],Vx sets memory[I + k] = Vk for exactly k = 0..x; LD Vx,[I]
\* sets Vk = memory[I + k] for exactly k = 0..x; everything else is unchanged.
C18_StoreLoadBlock ==
    [][LET x == decode_register_x(io'.fetched)
           i == chip8.i
       IN  /\ (UnitStep("ld_store_registers") /\ i + x < MEMORY) =>
                 /\ chip8'.panic = "none"
                 /\ \A a \in 0..(MEMORY - 1) :
                       chip8'.memory[a] = (IF a \in i..(i + x) THEN chip8.registers[a - i]
                                           ELSE chip8.memory[a])
                 /\ chip8'.registers = chip8.registers
           /\ (UnitStep("ld_read_registers") /\ i + x < MEMORY) =>
                 /\ \A k \in 0..15 :
                       chip8'.registers[k] = (IF k <= x THEN chip8.memory[i + k]
                                              ELSE chip8.registers[k])
                 /\ chip8'.memory = chip8.memory]_vars

\* a call of cycle that fetches a word (a step of main's loop past the fetch)
FetchStep == phase = "loaded" /\ phase' = "loaded" /\ io'.fetched # -1

\* C19: a step that fetches a skip instruction at A leaves PC = A + 4 when
\* its condition holds and A + 2 when it does not, and changes no register.
C19_SkipAdvance ==
    [][FetchStep =>
          LET w == io'.fetched
              vx == chip8.registers[decode_register_x(w)]
              vy == chip8.registers[decode_register_y(w)]
              kk == decode_byte(w)
              skip(cond) == /\ chip8'.pc = chip8.pc + (IF cond THEN 4 ELSE 2)
                            /\ chip8'.registers = chip8.registers
          IN  /\ TopNibble(w) = 3 => skip(vx = kk)
              /\ TopNibble(w) = 4 => skip(vx # kk)
              /\ (TopNibble(w) = 5 /\ w % 16 = 0) => skip(vx = vy)
              /\ (TopNibble(w) = 9 /\ w % 16 = 0) => skip(vx # vy)]_vars

\* C20: a step that fetches LD Vx,kk leaves Vx = kk and every other
\* register, I, memory, stack and display unchanged.
C20_LoadByte ==
    [][(FetchStep /\ TopNibble(io'.fetched) = 6) =>
          LET x == decode_register_x(io'.fetched)
          IN  /\ chip8'.registers =
                    [chip8.registers EXCEPT ![x] = decode_byte(io'.fetched)]
              /\ chip8'.i = chip8.i /\ chip8'.memory = chip8.memory
              /\ chip8'.stack = chip8.stack /\ chip8'.sp = chip8.sp
              /\ chip8'.display = chip8.display]_vars

\* ------------------------------------------------- timer functions, ops.rs
\* ld_get_delay_timer: the register index is taken from the field
\* chip8.opcode, not from the argument opcode
ld_get_delay_timer(c, opcode) ==
    LET v_x == (c.opcode \div 256) % 16
    IN  [c EXCEPT !.registers[v_x] = c.delay_timer]

\* ld_set_delay_timer and ld_set_sound_timer have empty bodies
ld_set_delay_timer(c, opcode) == c

ld_set_sound_timer(c, opcode) == c

OpGetDelay ==
    /\ UnitGuard
    /\ \E opcode \in {\hF007, \hF107} :
          Applied("ld_get_delay_timer", opcode, ld_get_delay_timer(chip8, opcode))

OpSetDelay ==
    /\ UnitGuard
    /\ \E opcode \in {\hF015, \hF115} :
          Applied("ld_set_delay_timer", opcode, ld_set_delay_timer(chip8, opcode))

OpSetSound ==
    /\ UnitGuard
    /\ \E opcode \in {\hF018, \hF118} :
          Applied("ld_set_sound_timer", opcode, ld_set_sound_timer(chip8, opcode))

\* a struct with V0 and V1 drawn from samples and the timers up to MaxTimer
InitTimerOps ==
    /\ \E a \in ByteSamples, b \in ByteSamples, d \in 0..MaxTimer, s \in 0..MaxTimer :
          chip8 = [new EXCEPT !.registers[0] = a, !.registers[1] = b,
                              !.delay_timer = d, !.sound_timer = s]
    /\ overflow_checks \in BOOLEAN
    /\ phase = "unit"
    /\ io = NoIo
    /\ nops = 0

NextTimerOps == OpGetDelay \/ OpSetDelay \/ OpSetSound

SpecTimerOps == InitTimerOps /\ [][NextTimerOps]_vars

\* C21: LD DT,Vx leaves delay_timer = Vx, LD ST,Vx leaves sound_timer = Vx
\* and LD Vx,DT leaves Vx = delay_timer, x being bits 8..11 of the
\* instruction executed (so a timer at 0 can be given a nonzero value).
C21_TimerAccess ==
    [][LET x == decode_register_x(io'.fetched)
           v == chip8.registers[x]
       IN  /\ UnitStep("ld_set_delay_timer") => chip8'.delay_timer = v
           /\ UnitStep("ld_set_sound_timer") => chip8'.sound_timer = v
           /\ UnitStep("ld_get_delay_timer") =>
                 chip8'.registers[x] = chip8.delay_timer]_vars

\* ------------------------------------------------------------ loading
\* C22: loading an image copies byte k to memory[0x200 + k] and leaves
\* memory below 0x200 as it was; an image of more than 4096 - 512 bytes
\* makes the load fail (the process panics) before any instruction is
\* fetched, and nothing is written outside memory.
C22_LoadRom ==
    /\ [][(phase = "new" /\ phase' = "loaded") =>
             \E image \in RomImages :
                /\ \A k \in 0..(Len(image) - 1) :
                      ROM_BASE + k < MEMORY => chip8'.memory[ROM_BASE + k] = image[k + 1]
                /\ \A a \in 0..(ROM_BASE - 1) : chip8'.memory[a] = chip8.memory[a]
                /\ DOMAIN chip8'.memory = 0..(MEMORY - 1)
                /\ (Len(image) > MEMORY - ROM_BASE) <=> (chip8'.panic = "index")
                /\ io' = NoIo]_vars
    /\ [][(phase = "loaded" /\ io = NoIo /\ chip8.panic # "none") => chip8' = chip8 /\ io' = io]_vars

\* C22 witness: the image one byte too long was loaded up to the last byte
\* of memory, the load panicked and no cycle has run
C22_Witness ==
    /\ phase = "loaded" /\ chip8.panic = "index" /\ io = NoIo
    /\ chip8.memory[MEMORY - 1] = ImageOver[MEMORY - ROM_BASE]
    /\ chip8.memory[0] = 0

\* ------------------------------------------------------ the flag register
\* The functions of ops.rs that write a register, applied directly from the
\* structs of InitOps.
OpLdByte ==
    /\ UnitGuard
    /\ \E opcode \in {\h6005, \h61FF, \h6F3C} :
          Applied("ld_register_byte", opcode, ld_register_byte(chip8, opcode))

OpLdRegisters ==
    /\ UnitGuard
    /\ \E opcode \in {\h8010, \h8100, \h8F10} :
          Applied("ld_registers", opcode, ld_registers(chip8, opcode))

OpOr ==
    /\ UnitGuard
    /\ \E opcode \in {\h8011, \h8101, \h8F11} :
          Applied("or_registers", opcode, or_registers(chip8, opcode))

OpAnd ==
    /\ UnitGuard
    /\ \E opcode \in {\h8012, \h8102, \h8F12} :
          Applied("and_registers", opcode, and_registers(chip8, opcode))

OpXor ==
    /\ UnitGuard
    /\ \E opcode \in {\h8013, \h8103, \h8F13} :
          Applied("xor_registers", opcode, xor_registers(chip8, opcode))

NextFlag ==
    \/ OpLdByte \/ OpAddByte \/ OpLdRegisters \/ OpOr \/ OpAnd \/ OpXor
    \/ OpAddRegisters \/ OpSub \/ OpSubn \/ OpShr \/ OpShl

SpecFlag == InitOps /\ [][NextFlag]_vars

\* the functions specified with no flag write
NoFlagOps ==
    {"ld_register_byte", "add_register_byte", "ld_registers",
     "or_registers", "and_registers", "xor_registers"}

\* C23: VF is written only as a flag output: ADD, SUB, SUBN, SHR, SHL with
\* x = 15 leave VF = the flag (carry, not-borrow, shifted-out bit), not the
\* arithmetic result; the functions with no flag write, with x other than
\* 15, leave VF as it was.
C23_FlagOnlyOutput ==
    [][LET x == decode_register_x(io'.fetched)
           a == chip8.registers[x]
           b == chip8.registers[decode_register_y(io'.fetched)]
           flag == chip8'.registers[VF]
       IN  /\ (UnitStep("add_registers") /\ x = VF) => flag = Carry(a, b)
           /\ (UnitStep("sub_registers") /\ x = VF) => flag = (IF a >= b THEN 1 ELSE 0)
           /\ (UnitStep("subn_registers") /\ x = VF) => flag = (IF b >= a THEN 1 ELSE 0)
           /\ (UnitStep("shr_registers") /\ x = VF) => flag = a % 2
           /\ (UnitStep("shl_registers") /\ x = VF) => flag = a \div 128
           /\ (phase = "unit" /\ nops' = nops + 1 /\ io'.op \in NoFlagOps /\ x # VF)
                 => flag = chip8.registers[VF]]_vars

\* ------------------------------------------------- sprite rows, ops.rs
\* largest number of sprite bytes given to binary_to_buffer
MaxRows == 2

\* bytes of the sprites given to binary_to_buffer
RowBytes == {\h00, \h2A, \h81, \hFF}

\* the sprites of up to n bytes over RowBytes
RECURSIVE Sprites(_)
Sprites(n) ==
    IF n = 0 THEN {<< >>}
    ELSE Sprites(n - 1) \cup {Append(s, b) : s \in {t \in Sprites(n - 1) : Len(t) = n - 1}, b \in RowBytes}

\* what a call of binary_to_vec or binary_to_buffer did: its argument and
\* the value it returned
Returned(name, argument, value) ==
    /\ io' = [op |-> name, addr |-> -1, fetched |-> -1, beep |-> FALSE,
              not_implemented |-> FALSE, argument |-> argument, value |-> value]
    /\ nops' = nops + 1
    /\ UNCHANGED <<chip8, overflow_checks, phase>>

OpBinaryToVec ==
    /\ UnitGuard
    /\ \E binary \in 0..(U8 - 1) :
          Returned("binary_to_vec", binary, binary_to_vec(binary))

OpBinaryToBuffer ==
    /\ UnitGuard
    /\ \E binary \in Sprites(MaxRows) :
          Returned("binary_to_buffer", binary, binary_to_buffer(binary))

InitBits ==
    /\ chip8 = new
    /\ overflow_checks \in BOOLEAN
    /\ phase = "unit"
    /\ io = NoIo
    /\ nops = 0

NextBits == OpBinaryToVec \/ OpBinaryToBuffer

SpecBits == InitBits /\ [][NextBits]_vars

\* bit n of byte b, n = 0 the least significant
Bit(b, n) == (b \div (2 ^ n)) % 2

\* C24: binary_to_vec(b) returns exactly 8 values, each 0 or 1, element k
\* being bit 7 - k of b, so the elements weighted by 2^(7-k) sum to b
\* (0b00101010 gives 0,0,1,0,1,0,1,0); binary_to_buffer returns a buffer 8
\* wide with one row per byte, each pixel 0 or 255 as its bit is 0 or 1.
C24_BinaryToVec ==
    /\ io.op = "binary_to_vec" =>
          LET b == io.argument
              v == io.value
          IN  /\ Len(v) = 8
              /\ \A k \in 0..7 : v[k + 1] \in {0, 1} /\ v[k + 1] = Bit(b, 7 - k)
              /\ b = 128 * v[1] + 64 * v[2] + 32 * v[3] + 16 * v[4]
                       + 8 * v[5] + 4 * v[6] + 2 * v[7] + v[8]
              /\ b = \h2A => v = <<0, 0, 1, 0, 1, 0, 1, 0>>
    /\ io.op = "binary_to_buffer" =>
          LET binary == io.argument
              buffer == io.value
          IN  /\ buffer.width = 8
              /\ buffer.height = Len(binary)
              /\ Len(buffer.pixels) = 8 * Len(binary)
              /\ \A r \in 0..(Len(binary) - 1), k \in 0..7 :
                    /\ buffer.pixels[8 * r + k + 1] \in {0, 255}
                    /\ buffer.pixels[8 * r + k + 1] = 255 * Bit(binary[r + 1], 7 - k)

\* C24 witness: binary_to_vec has just returned 0,0,1,0,1,0,1,0 for 0b00101010
C24_Witness ==
    /\ io.op = "binary_to_vec" /\ io.argument = \h2A
    /\ io.value = <<0, 0, 1, 0, 1, 0, 1, 0>>

====
